---------------------------- MODULE Spec2Model ----------------------------
(***************************************************************************)
(* A model of src/src/skipgram.py: the SkipGramNeg embedding module and    *)
(* the NegativeSamplingLoss module.                                        *)
(*                                                                         *)
(* Tensors.  A tensor is a tuple (1-D), a tuple of tuples (2-D) or a tuple *)
(* of tuples of tuples (3-D); position i of the source (0-based) is        *)
(* position i + 1 of the tuple.  Index tensors are 1-D, input_vectors and  *)
(* output_vectors 2-D, noise_vectors 3-D.                                  *)
(*                                                                         *)
(* Numbers.  A tensor entry is an integer, standing for the float of the   *)
(* same value.  A score (a dot product) and a loss are float records:      *)
(* finite, +inf, -inf or NaN.  FloatMax stands for the largest finite      *)
(* float: a product or a sum of scores beyond it is an infinity, as under  *)
(* IEEE 754.  A log term and a loss are in units of 1/1000.  The rounding  *)
(* of the mantissa is not modelled.                                        *)
(*                                                                         *)
(* Randomness.  uniform_ fills a table from a generator whose seed the     *)
(* initial state chooses; torch.multinomial is a choice among all the      *)
(* samples of positive probability.                                        *)
(***************************************************************************)
EXTENDS Integers, Sequences, FiniteSets, TLC

\* self: the SkipGramNeg object; given: the arguments __init__ was called
\* with; constructed: the object as __init__ left it; op, args: the call that
\* has returned ("idle": none) and its arguments as passed; args_after: the
\* arguments as the call left them; result: what it returned or that it
\* raised; noise_words: the indices forward_noise sampled.
VARIABLES self, given, constructed, op, args, args_after, result, noise_words

vars == <<self, given, constructed, op, args, args_after, result, noise_words>>

\* Bounds of the model.
MaxVocab == 2
MaxEmbed == 2
MaxSeed == 1
MaxWeight == 1
MaxWords == 2
MaxDraws == 4
MaxBatch == 2
MaxSamples == 2
MaxCase == 5
FloatMax == 100

\* Python's None (noise_dist defaults to it): the empty tuple.
None == <<>>

Max(a, b) == IF a >= b THEN a ELSE b

(***************************************************************************)
(* Random numbers: the n-th draw of a generator seeded with seed.          *)
(***************************************************************************)
Draw(seed, n) == ((seed * 37 + n * 11 + 5) * (n + seed * 3 + 7)) % 101

\* A uniform_ that also draws the value above hi.
uniform_wide_(seed, n, lo, hi) == lo + (Draw(seed, n) % (hi - lo + 2))

\* Tensor.uniform_(lo, hi) on the n-th element filled.
uniform_(seed, n, lo, hi) == lo + (Draw(seed, n) % (hi - lo + 1))

\* nn.Embedding(num_embeddings, embedding_dim).weight after uniform_(-1, 1):
\* num_embeddings rows of embedding_dim entries; first is the number of
\* draws the generator has made before.
Embedding(num_embeddings, embedding_dim, seed, first) ==
    [r \in 1..num_embeddings |->
        [c \in 1..embedding_dim |->
            uniform_(seed, first + (r - 1) * embedding_dim + c, -1, 1)]]

\* SkipGramNeg.__init__
SkipGramNeg(n_vocab, n_embed, noise_dist, seed) ==
    [n_vocab    |-> n_vocab,
     n_embed    |-> n_embed,
     noise_dist |-> noise_dist,
     in_embed   |-> Embedding(n_vocab, n_embed, seed, 0),
     out_embed  |-> Embedding(n_vocab, n_embed, seed, n_vocab * n_embed)]

(***************************************************************************)
(* A call returns the object and the arguments as the call leaves them,    *)
(* and its value: ok is FALSE when the call raises.                        *)
(***************************************************************************)
Return(obj, a, v) == [self |-> obj, args |-> a, ok |-> TRUE, val |-> v]

Raise(obj, a) == [self |-> obj, args |-> a, ok |-> FALSE, val |-> <<>>]

\* nn.Embedding.forward: row words[i] of weight at every position, or an
\* IndexError when an index is outside 0..num_embeddings-1.
InRange(weight, words) == \A i \in 1..Len(words) : words[i] \in 0..(Len(weight) - 1)

Lookup(weight, words) == [i \in 1..Len(words) |-> weight[words[i] + 1]]

\* A forward_input that zeroes, in place, the rows it has looked up.
forward_input_renorm(obj, input_words) ==
    IF InRange(obj.in_embed, input_words)
    THEN Return([obj EXCEPT !.in_embed =
                    [r \in 1..Len(obj.in_embed) |->
                        IF \E i \in 1..Len(input_words) : input_words[i] + 1 = r
                        THEN [c \in 1..Len(obj.in_embed[r]) |-> 0]
                        ELSE obj.in_embed[r]]],
                <<input_words>>, Lookup(obj.in_embed, input_words))
    ELSE Raise(obj, <<input_words>>)

\* A forward_input that reads the output table.
forward_input_other(obj, input_words) ==
    IF InRange(obj.out_embed, input_words)
    THEN Return(obj, <<input_words>>, Lookup(obj.out_embed, input_words))
    ELSE Raise(obj, <<input_words>>)

\* SkipGramNeg.forward_input
forward_input(obj, input_words) ==
    IF InRange(obj.in_embed, input_words)
    THEN Return(obj, <<input_words>>, Lookup(obj.in_embed, input_words))
    ELSE Raise(obj, <<input_words>>)

\* SkipGramNeg.forward_output
forward_output(obj, output_words) ==
    IF InRange(obj.out_embed, output_words)
    THEN Return(obj, <<output_words>>, Lookup(obj.out_embed, output_words))
    ELSE Raise(obj, <<output_words>>)

\* torch.ones(n)
ones(n) == [i \in 1..n |-> 1]

\* A multinomial that ignores the weights.
multinomial_any(weights, num_samples) ==
    [1..num_samples -> 0..(Len(weights) - 1)]

\* torch.multinomial(weights, num_samples, replacement=True): every
\* sequence of num_samples indices of positive weight.
multinomial(weights, num_samples) ==
    [1..num_samples -> {i \in 0..(Len(weights) - 1) : weights[i + 1] > 0}]

\* The distribution forward_noise samples from (lines 77-81).
NoiseDist(obj) ==
    IF obj.noise_dist = None THEN ones(obj.n_vocab) ELSE obj.noise_dist

\* Tensor.view(d0, d1, d2) of a 2-D tensor of d0 * d1 rows of d2 entries:
\* the same elements in row-major order.
view(rows, d0, d1, d2) ==
    LET flat(n) == rows[((n - 1) \div d2) + 1][((n - 1) % d2) + 1]
    IN  [i \in 1..d0 |-> [j \in 1..d1 |-> [c \in 1..d2 |->
            flat(((i - 1) * d1 + (j - 1)) * d2 + c)]]]

\* A forward_noise that reads the input table.
forward_noise_in(obj, batch_size, n_samples, words) ==
    Return(obj, <<batch_size, n_samples>>,
           view(Lookup(obj.in_embed, words), batch_size, n_samples, obj.n_embed))

\* SkipGramNeg.forward_noise, for the indices sampled.
forward_noise(obj, batch_size, n_samples, words) ==
    Return(obj, <<batch_size, n_samples>>,
           view(Lookup(obj.out_embed, words), batch_size, n_samples, obj.n_embed))

(***************************************************************************)
(* Floats.  The entries of the argument tensors are finite; a product or a *)
(* sum beyond FloatMax in magnitude is an infinity, and the sum of the two *)
(* infinities is NaN.                                                      *)
(***************************************************************************)
Fin(n) == [k |-> "fin", v |-> n]

PosInf == [k |-> "inf", v |-> 1]

NegInf == [k |-> "inf", v |-> -1]

NaN == [k |-> "nan", v |-> 0]

IsNaN(x) == x.k = "nan"

IsFinite(x) == x.k = "fin"

Round(n) ==
    IF n > FloatMax THEN PosInf ELSE IF n < -FloatMax THEN NegInf ELSE Fin(n)

FMul(a, b) == Round(a * b)

\* x + y without the rounding of a finite sum.
Plus(x, y) ==
    IF IsNaN(x) \/ IsNaN(y) THEN NaN
    ELSE IF x.k = "inf" /\ y.k = "inf" THEN (IF x.v = y.v THEN x ELSE NaN)
    ELSE IF x.k = "inf" THEN x
    ELSE IF y.k = "inf" THEN y
    ELSE Fin(x.v + y.v)

FAdd(x, y) == LET s == Plus(x, y) IN IF IsFinite(s) THEN Round(s.v) ELSE s

FNeg(x) == IF IsNaN(x) THEN NaN ELSE [k |-> x.k, v |-> -x.v]

\* x <= y, for x and y not NaN.
FLe(x, y) ==
    IF x.k = "inf" THEN (x.v = -1 \/ y = x)
    ELSE IF y.k = "inf" THEN y.v = 1
    ELSE x.v <= y.v

\* 1000 * ln(sigmoid(x)) for x = -7..7, to the nearest integer.
LogSigmoidTable ==
    <<-7001, -6002, -5007, -4018, -3049, -2127, -1313, -693,
      -313, -127, -49, -18, -7, -2, -1>>

\* 1000 * ln(sigmoid(x) + 1e-10) for x = -30..-8, to the nearest integer.
LogSigmoidEpsTable ==
    <<-23025, -23023, -23019, -23007, -22976, -22896, -22706, -22320,
      -21694, -20876, -19953, -18982, -17993, -16998, -15999, -15000,
      -14000, -13000, -12000, -11000, -10000, -9000, -8000>>

\* torch.log(torch.sigmoid(x)), in units of 1/1000: ln(sigmoid(x)) is x
\* below -7 and 0 above 7, to the unit.
LogSigmoid(x) ==
    IF IsNaN(x) THEN NaN
    ELSE IF x.k = "inf" THEN (IF x.v = 1 THEN Fin(0) ELSE NegInf)
    ELSE IF x.v > 7 THEN Fin(0)
    ELSE IF x.v < -7 THEN Fin(1000 * x.v)
    ELSE Fin(LogSigmoidTable[x.v + 8])

\* The log-sigmoid without the 1e-10.
LogSigmoidNoEps(x) == LogSigmoid(x)

\* torch.log(torch.sigmoid(x) + 1e-10), in units of 1/1000 (lines 139-140):
\* ln(1e-10) = -23.026 is its value at -inf and below -30.
LogSigmoidPlusEps(x) ==
    IF IsNaN(x) THEN NaN
    ELSE IF x.k = "inf" THEN (IF x.v = 1 THEN Fin(0) ELSE Fin(-23026))
    ELSE IF x.v >= -7 THEN LogSigmoid(x)
    ELSE IF x.v < -30 THEN Fin(-23026)
    ELSE Fin(LogSigmoidEpsTable[x.v + 31])

\* The shape of a 2-D and of a 3-D tensor.
Shape2(t) == <<Len(t), Len(t[1])>>

Shape3(t) == <<Len(t), Len(t[1]), Len(t[1][1])>>

\* Broadcasting of two sizes: equal, or one of them 1.
Broadcastable(m, n) == m = n \/ m = 1 \/ n = 1

\* The position read in a dimension of size m for position i of the result.
At(m, i) == IF m = 1 THEN 1 ELSE i

\* The sum of a 1-D tensor of floats, from the left.
RECURSIVE FSumTo(_, _)
FSumTo(xs, n) == IF n = 0 THEN Fin(0) ELSE FAdd(FSumTo(xs, n - 1), xs[n])

FSum(xs) == FSumTo(xs, Len(xs))

\* The sum of a 1-D tensor of log terms: each lies in -23.026..0, so no
\* sum of them leaves the range of the floats.
RECURSIVE SumTo(_, _)
SumTo(xs, n) == IF n = 0 THEN Fin(0) ELSE Plus(SumTo(xs, n - 1), xs[n])

Sum(xs) == SumTo(xs, Len(xs))

\* torch.mean of a 1-D tensor of log terms, in units of 1/1000.
Mean(xs) ==
    LET s == Sum(xs) IN IF IsFinite(s) THEN Fin(s.v \div Len(xs)) ELSE s

\* torch.sum(input_vectors * output_vectors, dim=1) (line 133), for
\* broadcastable shapes.
PosScores(input_vectors, output_vectors) ==
    LET si == Shape2(input_vectors)
        so == Shape2(output_vectors)
    IN  [b \in 1..Max(si[1], so[1]) |->
            FSum([e \in 1..Max(si[2], so[2]) |->
                    FMul(input_vectors[At(si[1], b)][At(si[2], e)],
                         output_vectors[At(so[1], b)][At(so[2], e)])])]

\* torch.bmm(noise_vectors, input_vectors.unsqueeze(2)).squeeze(2)
\* (line 136), for equal batch and embedding sizes.
NegScores(input_vectors, noise_vectors) ==
    [b \in 1..Len(noise_vectors) |->
        [k \in 1..Len(noise_vectors[b]) |->
            FSum([e \in 1..Len(input_vectors[b]) |->
                    FMul(noise_vectors[b][k][e], input_vectors[b][e])])]]

\* Lines 139-143 with the noise scores not negated.
LossOfScoresUnnegated(pos_scores, neg_scores) ==
    LET pos_loss == [b \in 1..Len(pos_scores) |-> LogSigmoidPlusEps(pos_scores[b])]
        neg_loss == [b \in 1..Len(neg_scores) |->
                        Sum([k \in 1..Len(neg_scores[b]) |->
                                LogSigmoidPlusEps(neg_scores[b][k])])]
        n == Max(Len(pos_loss), Len(neg_loss))
    IN  FNeg(Mean([b \in 1..n |->
                    Plus(pos_loss[At(Len(pos_loss), b)],
                         neg_loss[At(Len(neg_loss), b)])]))

\* Lines 139-143 with the sum over the batch in place of the mean.
LossOfScoresSummed(pos_scores, neg_scores) ==
    LET pos_loss == [b \in 1..Len(pos_scores) |-> LogSigmoidPlusEps(pos_scores[b])]
        neg_loss == [b \in 1..Len(neg_scores) |->
                        Sum([k \in 1..Len(neg_scores[b]) |->
                                LogSigmoidPlusEps(FNeg(neg_scores[b][k]))])]
        n == Max(Len(pos_loss), Len(neg_loss))
    IN  FNeg(Sum([b \in 1..n |->
                    Plus(pos_loss[At(Len(pos_loss), b)],
                         neg_loss[At(Len(neg_loss), b)])]))

\* Lines 139-143, from the scores.
LossOfScores(pos_scores, neg_scores) ==
    LET pos_loss == [b \in 1..Len(pos_scores) |-> LogSigmoidPlusEps(pos_scores[b])]
        neg_loss == [b \in 1..Len(neg_scores) |->
                        Sum([k \in 1..Len(neg_scores[b]) |->
                                LogSigmoidPlusEps(FNeg(neg_scores[b][k]))])]
        n == Max(Len(pos_loss), Len(neg_loss))
    IN  FNeg(Mean([b \in 1..n |->
                    Plus(pos_loss[At(Len(pos_loss), b)],
                         neg_loss[At(Len(neg_loss), b)])]))

\* Shape rules without broadcasting.
ShapesEqual(si, so, sn) == si = so /\ sn[1] = si[1] /\ sn[3] = si[2]

\* The shapes the library accepts: the elementwise product broadcasts
\* input_vectors with output_vectors, bmm takes equal batch and inner sizes.
ShapesAccepted(si, so, sn) ==
    /\ Broadcastable(si[1], so[1])
    /\ Broadcastable(si[2], so[2])
    /\ sn[1] = si[1]
    /\ sn[3] = si[2]

\* NegativeSamplingLoss.forward
forward(input_vectors, output_vectors, noise_vectors) ==
    LET a == <<input_vectors, output_vectors, noise_vectors>>
    IN  IF ShapesAccepted(Shape2(input_vectors), Shape2(output_vectors),
                          Shape3(noise_vectors))
        THEN Return(<<>>, a,
                    LossOfScores(PosScores(input_vectors, output_vectors),
                                 NegScores(input_vectors, noise_vectors)))
        ELSE Raise(<<>>, a)

(***************************************************************************)
(* The state machine: an object is constructed, then the methods of it and *)
(* of the loss module are called one after the other, in any order.  A     *)
(* call leaves its value in result; the caller drops it before the next    *)
(* call.                                                                   *)
(***************************************************************************)
\* The noise distributions over a vocabulary of n words: non-negative
\* weights, not all zero.
Dists(n) ==
    {w \in [1..n -> 0..MaxWeight] : \E i \in 1..n : w[i] > 0}

Construct(n_vocab, n_embed, noise_dist, seed) ==
    /\ self = SkipGramNeg(n_vocab, n_embed, noise_dist, seed)
    /\ given = <<n_vocab, n_embed, noise_dist>>
    /\ constructed = self
    /\ op = "idle"
    /\ args = <<>>
    /\ args_after = <<>>
    /\ result = [ok |-> TRUE, val |-> <<>>]
    /\ noise_words = <<>>

Init ==
    \E n_vocab \in 1..MaxVocab, n_embed \in 1..MaxEmbed, seed \in 0..MaxSeed :
        \E noise_dist \in {None} \cup Dists(n_vocab) :
            Construct(n_vocab, n_embed, noise_dist, seed)

\* No value is held: the object is new, or the caller has dropped the
\* value of the last call.
Idle == op = "idle"

Called(name, a, r, obj, words) ==
    /\ op' = name
    /\ args' = a
    /\ self' = obj
    /\ args_after' = r.args
    /\ result' = [ok |-> r.ok, val |-> r.val]
    /\ noise_words' = words
    /\ UNCHANGED <<given, constructed>>

\* Index tensors: 1-D, of 1..MaxWords entries from -1..n_vocab.
Words == UNION {[1..n -> -1..self.n_vocab] : n \in 1..MaxWords}

ForwardInput ==
    /\ Idle
    /\ \E input_words \in Words :
        \E r \in {forward_input(self, input_words)} :
            Called("forward_input", <<input_words>>, r, r.self, <<>>)

ForwardOutput ==
    /\ Idle
    /\ \E output_words \in Words :
        \E r \in {forward_output(self, output_words)} :
            Called("forward_output", <<output_words>>, r, r.self, <<>>)

ForwardNoise ==
    /\ Idle
    /\ \E batch_size \in 1..MaxDraws, n_samples \in 1..MaxDraws :
        /\ batch_size * n_samples <= MaxDraws
        /\ \E words \in multinomial(NoiseDist(self), batch_size * n_samples) :
            \E r \in {forward_noise(self, batch_size, n_samples, words)} :
                Called("forward_noise", <<batch_size, n_samples>>, r, r.self, words)

\* The entries of the argument tensors of the loss.
Vals == <<-20, -4, -1, 0, 1, 4, 20>>

Entry(case, n) == Vals[(Draw(case, n) % Len(Vals)) + 1]

Tensor2(case, first, d0, d1) ==
    [b \in 1..d0 |-> [e \in 1..d1 |-> Entry(case, first + (b - 1) * d1 + e)]]

Tensor3(case, first, d0, d1, d2) ==
    [b \in 1..d0 |-> [k \in 1..d1 |-> [e \in 1..d2 |->
        Entry(case, first + ((b - 1) * d1 + (k - 1)) * d2 + e)]]]

Sizes == (1..MaxBatch) \X (1..MaxEmbed)

\* The shapes of input_vectors, output_vectors and noise_vectors that agree.
MatchedShapes ==
    {<<s, s, <<s[1], k, s[2]>>>> : s \in Sizes, k \in 1..MaxSamples}

AllShapes ==
    {<<si, so, <<sn[1], k, sn[2]>>>> :
        si \in Sizes, so \in Sizes, sn \in Sizes, k \in 1..MaxSamples}

\* A call of NegativeSamplingLoss.forward, which holds no reference to the
\* SkipGramNeg object.
Loss(shapes) ==
    /\ Idle
    /\ \E sh \in shapes, case \in 0..MaxCase :
        LET input_vectors == Tensor2(case, 0, sh[1][1], sh[1][2])
            output_vectors == Tensor2(case, MaxBatch * MaxEmbed, sh[2][1], sh[2][2])
            noise_vectors == Tensor3(case, 2 * MaxBatch * MaxEmbed,
                                     sh[3][1], sh[3][2], sh[3][3])
        IN  \E r \in {forward(input_vectors, output_vectors, noise_vectors)} :
                Called("forward", <<input_vectors, output_vectors, noise_vectors>>,
                       r, self, <<>>)

LossCall == Loss(MatchedShapes)

LossAnyShape == Loss(AllShapes)

\* The caller drops the value returned.
Drop ==
    /\ ~Idle
    /\ op' = "idle"
    /\ args' = <<>>
    /\ args_after' = <<>>
    /\ result' = [ok |-> TRUE, val |-> <<>>]
    /\ noise_words' = <<>>
    /\ UNCHANGED <<self, given, constructed>>

Next == ForwardInput \/ ForwardOutput \/ ForwardNoise \/ LossCall \/ Drop

Spec == Init /\ [][Next]_vars

\* The loss on arguments of any shapes, beside one object of the largest
\* vocabulary and embedding size.
InitLoss == Construct(MaxVocab, MaxEmbed, None, 0)

NextLoss == ForwardInput \/ ForwardOutput \/ LossAnyShape \/ Drop

LossSpec == InitLoss /\ [][NextLoss]_vars

(***************************************************************************)
(* The claims.                                                             *)
(***************************************************************************)
IsMatrix(t, rows, cols) ==
    /\ Len(t) = rows
    /\ \A r \in 1..rows : Len(t[r]) = cols

\* C4: right after SkipGramNeg(n_vocab, n_embed, noise_dist), in_embed and
\* out_embed are tables of n_vocab rows and n_embed columns with every
\* entry in [-1, 1], and the three arguments are stored as given.
C4_Constructed ==
    Idle =>
        /\ self.n_vocab = given[1]
        /\ self.n_embed = given[2]
        /\ self.noise_dist = given[3]
        /\ \A t \in {self.in_embed, self.out_embed} :
            /\ IsMatrix(t, given[1], given[2])
            /\ \A r \in 1..Len(t) : \A c \in 1..Len(t[r]) :
                t[r][c] >= -1 /\ t[r][c] <= 1

\* An object with a noise distribution whose tables hold both ends of the
\* interval.
C4_Witness ==
    /\ Idle
    /\ self.noise_dist # None
    /\ self.n_vocab >= 2
    /\ self.n_embed >= 2
    /\ \E r \in 1..self.n_vocab, c \in 1..self.n_embed : self.in_embed[r][c] = 1
    /\ \E r \in 1..self.n_vocab, c \in 1..self.n_embed : self.in_embed[r][c] = -1
    /\ self.out_embed # self.in_embed

\* The tables another generator state would have left.
OtherTables ==
    {Embedding(self.n_vocab, self.n_embed, seed, first) :
        seed \in 0..(MaxSeed + 1), first \in {0, 1}}

InVocab(words) == \A i \in 1..Len(words) : words[i] >= 0 /\ words[i] < self.n_vocab

\* C3: for indices in 0..n_vocab-1, forward_input returns row
\* input_words[i] of in_embed at every position i and forward_output row
\* output_words[i] of out_embed; the result has one vector of n_embed
\* entries per index, and neither reads the other table.
C3_Lookup ==
    /\ (op = "forward_input" /\ InVocab(args[1])) =>
        /\ result.ok
        /\ IsMatrix(result.val, Len(args[1]), self.n_embed)
        /\ \A i \in 1..Len(args[1]) : result.val[i] = self.in_embed[args[1][i] + 1]
        /\ \A t \in OtherTables :
            forward_input([self EXCEPT !.out_embed = t], args[1]).val = result.val
    /\ (op = "forward_output" /\ InVocab(args[1])) =>
        /\ result.ok
        /\ IsMatrix(result.val, Len(args[1]), self.n_embed)
        /\ \A i \in 1..Len(args[1]) : result.val[i] = self.out_embed[args[1][i] + 1]
        /\ \A t \in OtherTables :
            forward_output([self EXCEPT !.in_embed = t], args[1]).val = result.val

\* forward_input on two different words whose rows differ between the two
\* tables.
C3_Witness ==
    /\ op = "forward_input"
    /\ Len(args[1]) >= 2
    /\ InVocab(args[1])
    /\ args[1][1] # args[1][2]
    /\ result.val[1] # self.out_embed[args[1][1] + 1]
    /\ result.val[2] # self.out_embed[args[1][2] + 1]

\* C2: forward_noise(batch_size, n_samples) returns batch_size rows of
\* n_samples vectors of n_embed entries, vector (i, j) being the row of
\* out_embed at the sampled index i * n_samples + j, which lies in
\* 0..n_vocab-1; also when batch_size * n_samples exceeds n_vocab.
C2_NoiseVectors ==
    op = "forward_noise" =>
        /\ result.ok
        /\ Len(noise_words) = args[1] * args[2]
        /\ Len(result.val) = args[1]
        /\ \A i \in 1..args[1] :
            /\ IsMatrix(result.val[i], args[2], self.n_embed)
            /\ \A j \in 1..args[2] :
                LET w == noise_words[(i - 1) * args[2] + j]
                IN  /\ w >= 0
                    /\ w < self.n_vocab
                    /\ result.val[i][j] = self.out_embed[w + 1]

\* More samples than words, in two rows of at least two, from tables that
\* differ at a sampled word.
C2_Witness ==
    /\ op = "forward_noise"
    /\ args[1] >= 2
    /\ args[2] >= 2
    /\ args[1] * args[2] > self.n_vocab
    /\ \E p \in 1..Len(noise_words) :
        self.in_embed[noise_words[p] + 1] # self.out_embed[noise_words[p] + 1]

\* C7: with noise_dist None every index 0..n_vocab-1 has the same weight
\* and can be drawn at every position; with noise_dist given, an index of
\* weight 0 is drawn at no position and an index of positive weight can be
\* drawn at every position.
C7_NoiseDist ==
    /\ Idle =>
        \A n \in 1..MaxDraws : \A p \in 1..n : \A i \in 0..(self.n_vocab - 1) :
            LET drawn == \E w \in multinomial(NoiseDist(self), n) : w[p] = i
            IN  IF self.noise_dist = None
                THEN NoiseDist(self)[i + 1] = NoiseDist(self)[1] /\ drawn
                ELSE drawn <=> self.noise_dist[i + 1] > 0
    /\ op = "forward_noise" =>
        \A p \in 1..Len(noise_words) :
            /\ noise_words[p] \in 0..(self.n_vocab - 1)
            /\ self.noise_dist # None => self.noise_dist[noise_words[p] + 1] > 0

\* Samples from a distribution that gives one word the weight 0.
C7_Witness ==
    /\ op = "forward_noise"
    /\ self.noise_dist # None
    /\ \E i \in 1..self.n_vocab : self.noise_dist[i] = 0
    /\ Len(noise_words) >= 2

\* A second call of the last method on the object and the arguments as
\* the first left them returns what the first returned.
SameAgain ==
    CASE op = "forward_input" ->
            \A r \in {forward_input(self, args_after[1])} :
                r.ok = result.ok /\ r.val = result.val
      [] op = "forward_output" ->
            \A r \in {forward_output(self, args_after[1])} :
                r.ok = result.ok /\ r.val = result.val
      [] op = "forward" ->
            \A r \in {forward(args_after[1], args_after[2], args_after[3])} :
                r.ok = result.ok /\ r.val = result.val
      [] OTHER -> TRUE

Dot(u, v) == FSum([e \in 1..Len(u) |-> FMul(u[e], v[e])])

\* The last call is the loss on input_vectors (B, E), output_vectors (B, E)
\* and noise_vectors (B, K, E).
Matched ==
    /\ op = "forward"
    /\ Shape2(args[2]) = Shape2(args[1])
    /\ Len(args[3]) = Len(args[1])
    /\ Len(args[3][1][1]) = Len(args[1][1])

\* log F(in . out) + sum over k of log F(-(noise_k . in)) for one row, F
\* being the log-sigmoid used.
RowTerm(F(_), in, out, noise) ==
    Plus(F(Dot(in, out)), Sum([k \in 1..Len(noise) |-> F(FNeg(Dot(noise[k], in)))]))

RECURSIVE RowTerms(_, _, _, _, _)
RowTerms(F(_), iv, ov, nv, n) ==
    IF n = 0 THEN Fin(0)
    ELSE Plus(RowTerms(F, iv, ov, nv, n - 1), RowTerm(F, iv[n], ov[n], nv[n]))

\* -(1/B) * the sum of the row terms, in units of 1/1000.
BatchLoss(F(_), iv, ov, nv) ==
    LET total == RowTerms(F, iv, ov, nv, Len(iv))
    IN  FNeg(IF IsFinite(total) THEN Fin(total.v \div Len(iv)) ELSE total)

\* Every row of a tensor twice.
Twice(t) == [i \in 1..(2 * Len(t)) |-> t[(i + 1) \div 2]]

ScoresFinite(iv, ov, nv) ==
    \A b \in 1..Len(iv) :
        /\ IsFinite(Dot(iv[b], ov[b]))
        /\ \A k \in 1..Len(nv[b]) : IsFinite(Dot(nv[b][k], iv[b]))

NoScoreNaN(iv, ov, nv) ==
    /\ \A b \in DOMAIN PosScores(iv, ov) : ~IsNaN(PosScores(iv, ov)[b])
    /\ \A b \in DOMAIN NegScores(iv, nv) : \A k \in DOMAIN NegScores(iv, nv)[b] :
        ~IsNaN(NegScores(iv, nv)[b][k])

\* C5, as claimed: for all finite arguments the loss is a finite number.
C5_Original ==
    (Matched /\ result.ok) => IsFinite(result.val)

\* C5, amended: for all finite arguments none of whose dot products is NaN
\* (they may be infinite) the loss is a finite number.
C5_Amended ==
    (op = "forward" /\ result.ok /\ NoScoreNaN(args[1], args[2], args[3])) =>
        IsFinite(result.val)

\* A sigmoid of -inf: a positive score of -inf or a noise score of +inf,
\* and no score NaN.
C5_Witness ==
    /\ op = "forward"
    /\ result.ok
    /\ NoScoreNaN(args[1], args[2], args[3])
    /\ \/ \E b \in DOMAIN PosScores(args[1], args[2]) :
            PosScores(args[1], args[2])[b] = NegInf
       \/ \E b \in DOMAIN NegScores(args[1], args[3]) :
            \E k \in DOMAIN NegScores(args[1], args[3])[b] :
                NegScores(args[1], args[3])[b][k] = PosInf

\* The vectors that differ from vec in at most one entry.
OneEntryChanged(vec) ==
    {[vec EXCEPT ![e] = Vals[i]] : e \in 1..Len(vec), i \in 1..Len(Vals)}

LossOf(iv, ov, nv) == forward(iv, ov, nv).val

\* C6: with everything else fixed, the loss does not increase when the dot
\* product of an input vector with its output vector increases, and does
\* not decrease when its dot product with one of its noise vectors
\* increases.
C6_Signs ==
    (Matched /\ result.ok /\ IsFinite(result.val)) =>
        \A b \in 1..Len(args[1]) :
            /\ \A out \in OneEntryChanged(args[2][b]) :
                LET d == Dot(args[1][b], out)
                    l == LossOf(args[1], [args[2] EXCEPT ![b] = out], args[3])
                IN  (~IsNaN(d) /\ FLe(Dot(args[1][b], args[2][b]), d)) =>
                        IsFinite(l) /\ l.v <= result.val.v
            /\ \A k \in 1..Len(args[3][b]) :
                \A noise \in OneEntryChanged(args[3][b][k]) :
                    LET d == Dot(noise, args[1][b])
                        l == LossOf(args[1], args[2],
                                    [args[3] EXCEPT ![b][k] = noise])
                    IN  (~IsNaN(d) /\ FLe(Dot(args[3][b][k], args[1][b]), d)) =>
                            IsFinite(l) /\ l.v >= result.val.v

\* A batch in which a larger positive score gives a smaller loss and a
\* larger noise score a larger loss.
C6_Witness ==
    /\ Matched
    /\ result.ok
    /\ IsFinite(result.val)
    /\ \E b \in 1..Len(args[1]) :
        /\ \E out \in OneEntryChanged(args[2][b]) :
            LET d == Dot(args[1][b], out)
                l == LossOf(args[1], [args[2] EXCEPT ![b] = out], args[3])
            IN  /\ ~IsNaN(d)
                /\ FLe(Dot(args[1][b], args[2][b]), d)
                /\ l.v < result.val.v
        /\ \E k \in 1..Len(args[3][b]) :
            \E noise \in OneEntryChanged(args[3][b][k]) :
                LET d == Dot(noise, args[1][b])
                    l == LossOf(args[1], args[2], [args[3] EXCEPT ![b][k] = noise])
                IN  /\ ~IsNaN(d)
                    /\ FLe(Dot(args[3][b][k], args[1][b]), d)
                    /\ l.v > result.val.v

\* The batch sizes and the embedding sizes of the three arguments agree.
SizesAgree(iv, ov, nv) ==
    /\ Len(ov) = Len(iv)
    /\ Len(nv) = Len(iv)
    /\ Len(ov[1]) = Len(iv[1])
    /\ Len(nv[1][1]) = Len(iv[1])

IndexRaises ==
    (op \in {"forward_input", "forward_output"} /\ ~InVocab(args[1])) => ~result.ok

=============================================================================
